---- MODULE Spec2Model ----
(***************************************************************************)
(* Model of api_bench/python/benchmark_serving.py: the arrival scheduler   *)
(* (get_request / get_request_async), the cooperative driver               *)
(* (benchmark_async), the partitioned driver (main + benchThread +         *)
(* benchmark), the aggregator calculate_metrics, and the checks of main    *)
(* on its configuration.                                                   *)
(*                                                                         *)
(* Time is a global clock `now` (time.perf_counter) that advances by Tick  *)
(* between any two steps.  A sleep or a request in flight ends after any   *)
(* number of ticks, which covers every sampled interval and every latency. *)
(***************************************************************************)
EXTENDS Integers, Sequences, FiniteSets, TLC

\* ---------------------------------------------------------------- bounds
MaxThreads == 2      \* largest --num-threads explored
MaxPrompts == 2      \* largest --num-prompts explored
MaxPool    == 4      \* largest request pool explored
MaxTime    == 2      \* the clock stops advancing here
MaxStop    == 1      \* largest --thread-stop-time explored
MaxRamp    == 2      \* largest --ramp-up-time explored
MaxShort   == 1      \* largest shortfall of the ShareGPT sampler
MaxOutcomes == 2     \* longest outcome list the aggregator is explored on
MaxTokens  == 2      \* largest token count of a generated text
MaxLatency == 2      \* largest latency of a request

\* float("inf"), the default --request-rate
Inf == 999999

\* None, the default --sharegpt-output-len
None == -1

VARIABLES
    args,                 \* the parsed command line (argparse.Namespace)
    input_requests,       \* the request pool built by main
    now,                  \* time.perf_counter()
    mainPc,               \* position of main / benchmark_async
    benchmark_start_time, \* start timestamp of the run
    benchmark_duration,   \* duration handed to calculate_metrics (-1: not taken)
    joined,               \* number of threads main has joined
    tasks,                \* benchmark_async: the spawned tasks, in spawn order
    asyncReleased,        \* specs yielded so far by get_request_async
    asyncOutputs,         \* benchmark_async: result of asyncio.gather
    asyncEvents,          \* history: what get_request_async has done so far
    wPc,                  \* position of each benchThread
    wReqs,                \* benchThread.input_requests (the slice)
    wStart,               \* benchmark(): benchmark_start_time of the thread
    sleepFrom,            \* run(): clock when the ramp-up sleep began
    released,             \* specs yielded so far by each thread's get_request
    outputs,              \* benchmark(): the thread's outputs list
    events,               \* history: what each get_request has done so far
    all_outputs,          \* main: concatenation of the threads' outputs
    aggregated,           \* the outputs list calculate_metrics was called with
    metrics,              \* what calculate_metrics returned or raised
    error                 \* the exception main ended with ("none": none)

vars == <<args, input_requests, now, mainPc, benchmark_start_time,
          benchmark_duration, joined, tasks, asyncReleased, asyncOutputs,
          asyncEvents, wPc, wReqs, wStart, sleepFrom, released, outputs,
          events,
          all_outputs, aggregated, metrics, error>>

mainVars  == <<mainPc, benchmark_start_time, benchmark_duration, joined,
               all_outputs, aggregated, metrics, error>>
asyncVars == <<tasks, asyncReleased, asyncOutputs, asyncEvents>>
workerVars == <<wPc, wReqs, wStart, sleepFrom, released, outputs, events>>

\* ---------------------------------------------------------------- helpers
Min(a, b) == IF a <= b THEN a ELSE b

ThreadIds == 0 .. (MaxThreads - 1)

\* the threads main creates: range(args.num_threads)
Workers == 0 .. (args.num_threads - 1)

\* Python slice s[lo:hi] of a list (0-based, hi exclusive, clamped to len(s))
PySlice(s, lo, hi) ==
    LET l == Min(lo, Len(s))
        h == Min(hi, Len(s))
    IN  IF l >= h THEN << >> ELSE SubSeq(s, l + 1, h)

RECURSIVE ConcatPrepend(_, _)
\* slip: each thread's outputs put in front of the list
ConcatPrepend(f, n) ==
    IF n = 0 THEN << >> ELSE f[n - 1] \o ConcatPrepend(f, n - 1)

RECURSIVE ConcatUpTo(_, _)
\* all_outputs after the first n iterations of `all_outputs += outputs`
ConcatUpTo(f, n) == IF n = 0 THEN << >> ELSE ConcatUpTo(f, n - 1) \o f[n - 1]

\* ---------------------------------------------------------- pool building
\* number of requests main asks the sampler for
NumRequested(a) ==
    IF a.dataset_name = "sharegpt"
    THEN a.num_prompts * a.num_threads
    ELSE a.num_prompts

\* number of specs the sampler returns: sample_sharegpt_requests stops at
\* num_requests or when the filtered corpus is used up (a.short entries
\* missing); sample_sonnet_requests always returns num_requests specs
PoolSize(a) ==
    IF a.dataset_name = "sharegpt"
    THEN IF NumRequested(a) >= a.short THEN NumRequested(a) - a.short ELSE 0
    ELSE NumRequested(a)

\* prompt_len of the i-th sampled request in the corpus explored: the
\* ShareGPT sampler prunes every prompt shorter than 4 tokens, and the
\* lengths differ from one request to the next
CorpusPromptLen(i) == 4 + i

\* a pool of n specs (prompt, prompt_len, output_len): spec i is the i-th
\* sampled request; the requested output_len is not read by the run
PoolOf(n) ==
    [i \in 1 .. n |-> [prompt |-> i, prompt_len |-> CorpusPromptLen(i)]]

\* the pool main builds
MakePool(a) == PoolOf(PoolSize(a))

\* ------------------------------------------------- configuration checks
\* the keys of REQUEST_FUNCS and ASYNC_REQUEST_FUNCS
KnownBackend(b) == b \in {"vllm", "openai-chat"}

\* the exception main raises before it has its pool: the assertion on
\* num_threads, then the checks of the dataset branch that is taken
ConfigError(a) ==
    IF ~(a.num_threads > 0) THEN "num_threads"
    ELSE IF a.dataset_name = "sharegpt"
    THEN IF a.sharegpt_output_len # None /\ a.sharegpt_output_len < 4
         THEN "output_len" ELSE "none"
    ELSE IF a.dataset_name = "sonnet"
    THEN IF a.backend # "openai-chat" /\ ~a.chat_template
         THEN "chat_template" ELSE "none"
    ELSE "dataset"

\* the save-result block: a metadata item without "=" raises ValueError;
\* an item is modelled by whether it holds the "="
MetadataError(a) ==
    /\ a.save_result
    /\ \E i \in 1 .. Len(a.metadata) : ~a.metadata[i]

\* slip: the slice bounds taken one element too far
SliceOfShifted(i) ==
    PySlice(input_requests, i * args.num_prompts + 1,
            (i + 1) * args.num_prompts + 1)

\* the slice main hands to thread i
SliceOf(i) ==
    PySlice(input_requests, i * args.num_prompts, (i + 1) * args.num_prompts)

\* slip: the whole ramp-up window per thread, not divided by num_threads
RampOverFullWindow(i, t0, t) == (t - t0) >= i * args.ramp_up_time

\* the start offset main hands to thread i is i * ramp_up_time / num_threads;
\* time.sleep(offset) begun at t0 is over at clock t iff t - t0 >= offset
RampOver(i, t0, t) ==
    (t - t0) * args.num_threads >= i * args.ramp_up_time

\* ------------------------------------------------------ arrival scheduler
\* slip: the iteration stops one element early
HasNextDropsLast(reqs, rel) == Len(rel) + 1 < Len(reqs)

\* get_request / get_request_async: the iterator has a next element
HasNext(reqs, rel) == Len(rel) < Len(reqs)

\* the element the generator yields next
NextRequest(reqs, rel) == reqs[Len(rel) + 1]

\* slip: the test for the infinite rate left out
SleepsAlways == TRUE

\* after a yield the generator sleeps unless request_rate == float("inf")
SleepsAfterYield == args.request_rate # Inf

\* the scheduler hands spec r to its consumer: `yield request`
ReleaseEvent(r) == [kind |-> "release", spec |-> r]

\* the scheduler suspends for the interval sampled after it yielded spec r
SuspendEvent(r) == [kind |-> "suspend", spec |-> r]

\* the history ev after the scheduler has yielded spec r
Yielded(ev, r) == Append(ev, ReleaseEvent(r))

\* the history ev after control has come back into the scheduler behind
\* the yield of spec r: `continue` at an infinite rate, a sleep otherwise
Resumed(ev, r) == IF SleepsAfterYield THEN Append(ev, SuspendEvent(r)) ELSE ev

\* slip: the test for a configured deadline (thread_stop_time > 0) left out
StopReachedUnguarded(w) == now - wStart[w] >= args.thread_stop_time

\* slip: > in place of >=
StopReachedStrict(w) ==
    /\ args.thread_stop_time > 0
    /\ now - wStart[w] > args.thread_stop_time

\* slip: the elapsed time is measured from the start timestamp of main
StopReachedGlobal(w) ==
    /\ args.thread_stop_time > 0
    /\ now - benchmark_start_time >= args.thread_stop_time

\* benchmark(): the stop-deadline test at the top of the loop body
StopReached(w) ==
    /\ args.thread_stop_time > 0
    /\ now - wStart[w] >= args.thread_stop_time

\* ------------------------------------------------------------- aggregator
\* A quotient a / b of the code is kept as the pair <<a, b>>.
RECURSIVE SumSeq(_)
\* sum(actual_output_lens)
SumSeq(s) == IF s = << >> THEN 0 ELSE s[1] + SumSeq(Tail(s))

\* np.mean of a non-empty list
Mean(s) == <<SumSeq(s), Len(s)>>

\* slip: the conversion to milliseconds left out
ToMsUnscaled(q) == q

\* `* 1000`: a quotient of seconds in milliseconds
ToMs(q) == <<q[1] * 1000, q[2]>>

\* the accumulators of calculate_metrics before its loop
EmptyAcc ==
    [ actual_output_lens |-> << >>, total_input |-> 0, completed |-> 0,
      tpots |-> << >>, ttfts |-> << >>, tprs |-> << >> ]

RECURSIVE MetricsLoop(_, _, _)
\* the accumulators after the first n iterations of
\* `for i in range(len(outputs))`; the prompt length is read from
\* input_requests at the position i of the outcome in outputs
MetricsLoop(reqs, outs, n) ==
    IF n = 0 THEN EmptyAcc
    ELSE LET acc == MetricsLoop(reqs, outs, n - 1)
             o   == outs[n]
         IN  IF o.success
             THEN [ actual_output_lens |->
                        Append(acc.actual_output_lens, o.output_len),
                    total_input |-> acc.total_input + reqs[n].prompt_len,
                    completed |-> acc.completed + 1,
                    tpots |-> IF o.output_len > 1
                              THEN Append(acc.tpots, <<o.latency - o.ttft,
                                                       o.output_len - 1>>)
                              ELSE acc.tpots,
                    ttfts |-> Append(acc.ttfts, o.ttft),
                    tprs |-> Append(acc.tprs, o.latency) ]
             ELSE [acc EXCEPT
                     !.actual_output_lens = Append(@, 0)]

\* metrics before calculate_metrics is called, and when it raises
NoMetrics(status) ==
    [ status |-> status, completed |-> 0, successful_rate |-> <<0, 1>>,
      total_input |-> 0, total_output |-> 0,
      request_throughput |-> <<0, 1>>, input_throughput |-> <<0, 1>>,
      output_throughput |-> <<0, 1>>, mean_ttft_ms |-> <<0, 1>>,
      ttft |-> << >>, tpot |-> << >>, tpr |-> << >> ]

\* calculate_metrics: the loop, then the BenchmarkMetrics constructor, whose
\* arguments are evaluated in order.  completed / len(outputs) raises
\* ZeroDivisionError on an empty list; the TTFT statistics are taken over
\* `ttfts or 0`, the scalar 0 when the list is empty; np.min(tpots) and
\* np.min(tprs) raise ValueError on an empty list.  A distribution is
\* reported as the samples its statistics are taken over, and TTFT with its
\* mean in milliseconds as well.  The clock counts
\* whole ticks, so a duration of 0 ticks stands for a positive duration and
\* the divisions by dur_s do not raise.
CalculateMetrics(reqs, outs, dur_s) ==
    IF \E i \in 1 .. Len(outs) : outs[i].success /\ i > Len(reqs)
    THEN NoMetrics("IndexError")
    ELSE LET acc == MetricsLoop(reqs, outs, Len(outs)) IN
         IF Len(outs) = 0 THEN NoMetrics("ZeroDivisionError")
         ELSE IF acc.tpots = << >> THEN NoMetrics("ValueError")
         ELSE IF acc.tprs = << >> THEN NoMetrics("ValueError")
         ELSE [ status |-> "returned",
                completed |-> acc.completed,
                successful_rate |-> <<acc.completed, Len(outs)>>,
                total_input |-> acc.total_input,
                total_output |-> SumSeq(acc.actual_output_lens),
                request_throughput |-> <<acc.completed, dur_s>>,
                input_throughput |-> <<acc.total_input, dur_s>>,
                output_throughput |->
                    <<SumSeq(acc.actual_output_lens), dur_s>>,
                mean_ttft_ms |->
                    ToMs(Mean(IF acc.ttfts = << >> THEN <<0>> ELSE acc.ttfts)),
                ttft |-> IF acc.ttfts = << >> THEN <<0>> ELSE acc.ttfts,
                tpot |-> acc.tpots,
                tpr |-> acc.tprs ]

\* ------------------------------------------------------------------- Init
\* the fields of a command line.  `short` is not an option but the input of
\* the sampler, the number of requests the filtered corpus falls short of;
\* `chat_template` is whether the tokenizer has a chat template; `metadata`
\* is the list of the --metadata items, each kept as whether it holds "="
ArgFields ==
    [ enable_async        : BOOLEAN,
      num_threads         : 0 .. MaxThreads,
      num_prompts         : 1 .. MaxPrompts,
      ramp_up_time        : {0, MaxRamp},
      thread_stop_time    : 0 .. MaxStop,
      request_rate        : {1, Inf},
      dataset_name        : {"sharegpt", "sonnet", "other"},
      short               : 0 .. MaxShort,
      backend             : {"vllm", "openai-chat", "unknown"},
      chat_template       : BOOLEAN,
      sharegpt_output_len : {None, 3, 4},
      save_result         : BOOLEAN,
      metadata            : {<< >>, <<TRUE>>, <<FALSE>>} ]

\* the options that do not shape the schedule, at their plain values
PlainOptions(a) ==
    /\ a.num_threads > 0
    /\ a.dataset_name \in {"sharegpt", "sonnet"}
    /\ a.backend = "vllm"
    /\ a.chat_template
    /\ a.sharegpt_output_len = None
    /\ ~a.save_result
    /\ a.metadata = << >>

\* the smallest schedule: at most one thread, one prompt, no waiting
SmallestRun(a) ==
    /\ a.num_threads <= 1
    /\ a.num_prompts = 1
    /\ a.ramp_up_time = 0
    /\ a.thread_stop_time = 0
    /\ a.request_rate = Inf
    /\ a.short = 0

\* every schedule is explored with the plain options, and every value of
\* the other options with the smallest schedule
ArgSpace ==
    { a \in ArgFields :
        /\ a.num_threads * a.num_prompts <= MaxPool
        /\ (a.dataset_name # "sharegpt" => a.short = 0)
        \* the thread options are not read in cooperative mode
        /\ (a.enable_async =>
               /\ a.ramp_up_time = 0
               /\ a.thread_stop_time = 0)
        /\ (PlainOptions(a) \/ SmallestRun(a)) }

Init ==
    /\ args \in ArgSpace
    /\ input_requests = << >>
    /\ now = 0
    /\ mainPc = "start"
    /\ benchmark_start_time = 0
    /\ benchmark_duration = -1
    /\ joined = 0
    /\ tasks = << >>
    /\ asyncReleased = << >>
    /\ asyncEvents = << >>
    /\ asyncOutputs = << >>
    /\ wPc = [w \in ThreadIds |-> "unborn"]
    /\ wReqs = [w \in ThreadIds |-> << >>]
    /\ wStart = [w \in ThreadIds |-> 0]
    /\ sleepFrom = [w \in ThreadIds |-> 0]
    /\ released = [w \in ThreadIds |-> << >>]
    /\ outputs = [w \in ThreadIds |-> << >>]
    /\ events = [w \in ThreadIds |-> << >>]
    /\ all_outputs = << >>
    /\ aggregated = << >>
    /\ metrics = NoMetrics("pending")
    /\ error = "none"

\* ------------------------------------------------------------------ clock
\* the clock is read from the start timestamp of the run to its last step,
\* so its origin is put at the start of the run
Tick ==
    /\ mainPc \notin {"start", "done", "failed"}
    /\ now < MaxTime
    /\ now' = now + 1
    /\ UNCHANGED <<args, input_requests, mainVars, asyncVars, workerVars>>

\* ------------------------------------------------- main, partitioned mode
\* main() up to the start timestamp: the assertion on num_threads and the
\* checks of the dataset branch, the pool is built, and main branches on
\* args.enable_async; benchmark_async checks its backend before it takes
\* the start timestamp
MainStart ==
    /\ mainPc = "start"
    /\ IF ConfigError(args) # "none"
       THEN /\ error' = ConfigError(args)
            /\ mainPc' = "failed"
            /\ UNCHANGED <<input_requests, benchmark_start_time>>
       ELSE /\ input_requests' = MakePool(args)
            /\ IF args.enable_async /\ ~KnownBackend(args.backend)
               THEN /\ error' = "backend"
                    /\ mainPc' = "failed"
                    /\ UNCHANGED benchmark_start_time
               ELSE /\ benchmark_start_time' = now
                    /\ mainPc' = IF args.enable_async THEN "gen" ELSE "spawn"
                    /\ UNCHANGED error
    /\ UNCHANGED <<args, now, benchmark_duration, joined,
                   all_outputs, aggregated, metrics,
                   asyncVars, workerVars>>

\* number of threads main has created and started
Spawned == Cardinality({w \in Workers : wPc[w] # "unborn"})

\* one iteration of the thread-creation loop: benchThread(i, offset, slice),
\* thread.start(); the thread enters run() and its ramp-up sleep
Spawn ==
    /\ mainPc = "spawn"
    /\ LET i == Spawned IN
         /\ wReqs' = [wReqs EXCEPT ![i] = SliceOf(i)]
         /\ sleepFrom' = [sleepFrom EXCEPT ![i] = now]
         /\ wPc' = [wPc EXCEPT ![i] = "ramp"]
         /\ mainPc' = IF i + 1 = args.num_threads THEN "join" ELSE "spawn"
    /\ UNCHANGED <<args, input_requests, now, benchmark_start_time,
                   benchmark_duration, joined, all_outputs, aggregated,
                   metrics, error,
                   asyncVars, wStart, released, outputs, events>>

\* slip: join returns for a thread that is still running
JoinReturnsAtOnce(w) == wPc[w] # "unborn"

\* slip: join returns only for a thread that has exhausted its slice
JoinReturnsOnExhaustion(w) ==
    \/ wPc[w] = "raised"
    \/ wPc[w] = "terminated" /\ Len(released[w]) = Len(outputs[w])

\* thread.join() returns: the thread's run() has returned or raised
JoinReturns(w) == wPc[w] \in {"terminated", "raised"}

\* one iteration of `for thread in threads: thread.join()`
Join ==
    /\ mainPc = "join"
    /\ joined < args.num_threads
    /\ JoinReturns(joined)
    /\ joined' = joined + 1
    /\ UNCHANGED <<args, input_requests, now, mainPc, benchmark_start_time,
                   benchmark_duration, all_outputs, aggregated,
                   metrics, error,
                   asyncVars, workerVars>>

\* the join loop is over
AllJoined == joined = args.num_threads

\* benchmark_duration = time.perf_counter() - benchmark_start_time
TakeDuration ==
    /\ mainPc = "join"
    /\ AllJoined
    /\ benchmark_duration' = now - benchmark_start_time
    /\ mainPc' = "concat"
    /\ UNCHANGED <<args, input_requests, now, benchmark_start_time, joined,
                   all_outputs, aggregated, metrics, error,
                   asyncVars, workerVars>>

\* thread.get_result(): join() and return self.outputs
GetResult(w) == outputs[w]

\* the loop `all_outputs += thread.get_result()` over the threads in order;
\* a thread whose run() raised has no outputs attribute, and get_result
\* raises in main
Concat ==
    /\ mainPc = "concat"
    /\ \A w \in Workers : JoinReturns(w)
    /\ IF \E w \in Workers : wPc[w] = "raised"
       THEN /\ error' = "backend"
            /\ mainPc' = "failed"
            /\ UNCHANGED all_outputs
       ELSE /\ all_outputs' = ConcatUpTo([w \in Workers |-> GetResult(w)],
                                         args.num_threads)
            /\ mainPc' = "aggregate"
            /\ UNCHANGED error
    /\ UNCHANGED <<args, input_requests, now, benchmark_start_time,
                   benchmark_duration, joined, aggregated, metrics,
                   asyncVars, workerVars>>

\* calculate_metrics(input_requests, outputs, dur_s, tokenizer) is called
\* with the whole pool; if it returns, the report is printed and the
\* save-result block runs, which is where the metadata items are checked
Aggregate ==
    /\ mainPc = "aggregate"
    /\ LET outs == IF args.enable_async THEN asyncOutputs ELSE all_outputs
           m == CalculateMetrics(input_requests, outs, benchmark_duration)
           e == IF m.status # "returned" THEN "metrics"
                ELSE IF MetadataError(args) THEN "metadata"
                ELSE "none"
       IN  /\ aggregated' = outs
           /\ metrics' = m
           /\ error' = e
           /\ mainPc' = IF e = "none" THEN "done" ELSE "failed"
    /\ UNCHANGED <<args, input_requests, now, benchmark_start_time,
                   benchmark_duration, joined, all_outputs,
                   asyncVars, workerVars>>

\* ------------------------------------------------------------ benchThread
\* run(): time.sleep(self.ramp_up_time) is over and benchmark() starts: it
\* raises on a backend that is not in REQUEST_FUNCS, which ends the thread,
\* and takes its own start timestamp otherwise
RampWake(w) ==
    /\ wPc[w] = "ramp"
    /\ RampOver(w, sleepFrom[w], now)
    /\ sleepFrom' = [sleepFrom EXCEPT ![w] = 0]
    /\ IF KnownBackend(args.backend)
       THEN /\ wStart' = [wStart EXCEPT ![w] = now]
            /\ wPc' = [wPc EXCEPT ![w] = "gen"]
       ELSE /\ wPc' = [wPc EXCEPT ![w] = "raised"]
            /\ UNCHANGED wStart
    /\ UNCHANGED <<args, input_requests, now, mainVars, asyncVars,
                   wReqs, released, outputs, events>>

\* slip: the next element is asked for while the request is still in flight
WorkerReadyInFlight(w) == wPc[w] \in {"gen", "inflight"}

\* the for loop asks get_request for its next element only once the loop
\* body, and with it the blocking call of request_func, has returned
WorkerReady(w) == wPc[w] = "gen"

\* get_request yields the next spec and the loop body tests the stop
\* deadline: break, or build the input and call request_func
Release(w) ==
    /\ WorkerReady(w)
    /\ HasNext(wReqs[w], released[w])
    /\ released' = [released EXCEPT
                      ![w] = Append(@, NextRequest(wReqs[w], released[w]))]
    /\ events' = [events EXCEPT
                    ![w] = Yielded(@, NextRequest(wReqs[w], released[w]))]
    /\ wPc' = [wPc EXCEPT
                 ![w] = IF StopReached(w) THEN "terminated" ELSE "inflight"]
    /\ UNCHANGED <<args, input_requests, now, mainVars, asyncVars,
                   wReqs, wStart, sleepFrom, outputs>>

\* the outcome request_func returns: success or failure, never an exception.
\* output_len stands for the token count of generated_text.  In a run every
\* successful request generates 2 tokens, the first after 1 tick and the
\* last after 2; a failed one has the defaults of RequestFuncOutput
Outcome(spec, ok) ==
    [ spec |-> spec, success |-> ok,
      output_len |-> IF ok THEN 2 ELSE 0,
      ttft |-> IF ok THEN 1 ELSE 0,
      latency |-> IF ok THEN 2 ELSE 0 ]

\* slip: hard cut-off, the outcome of a request that returns after the stop
\* deadline is dropped
AppendOutcomeUnlessLate(w, ok) ==
    IF StopReached(w)
    THEN outputs[w]
    ELSE Append(outputs[w], Outcome(released[w][Len(released[w])], ok))

\* slip: a failed request is dropped, not recorded
AppendOutcomeDropsFailure(w, ok) ==
    IF ok
    THEN Append(outputs[w], Outcome(released[w][Len(released[w])], ok))
    ELSE outputs[w]

\* outputs.append(request_func(...)): the outcome of the request in flight,
\* the spec released last, is appended whenever the call returns
AppendOutcome(w, ok) ==
    Append(outputs[w], Outcome(released[w][Len(released[w])], ok))

\* slip: the thread variant of the generator has lost its sleep
CompleteWithoutSleep(w) ==
    /\ wPc[w] = "inflight"
    /\ \E ok \in BOOLEAN :
         outputs' = [outputs EXCEPT ![w] = AppendOutcome(w, ok)]
    /\ wPc' = [wPc EXCEPT ![w] = "gen"]
    /\ UNCHANGED <<args, input_requests, now, mainVars, asyncVars,
                   wReqs, wStart, sleepFrom, released, events>>

\* request_func returns; outputs.append(...); control goes back into the
\* generator, which sleeps unless the rate is infinite
Complete(w) ==
    /\ wPc[w] = "inflight"
    /\ \E ok \in BOOLEAN :
         outputs' = [outputs EXCEPT ![w] = AppendOutcome(w, ok)]
    /\ events' = [events EXCEPT
                    ![w] = Resumed(@, released[w][Len(released[w])])]
    /\ wPc' = [wPc EXCEPT ![w] = IF SleepsAfterYield THEN "sleep" ELSE "gen"]
    /\ UNCHANGED <<args, input_requests, now, mainVars, asyncVars,
                   wReqs, wStart, sleepFrom, released>>

\* time.sleep(interval) in get_request is over
SleepWake(w) ==
    /\ wPc[w] = "sleep"
    /\ wPc' = [wPc EXCEPT ![w] = "gen"]
    /\ UNCHANGED <<args, input_requests, now, mainVars, asyncVars,
                   wReqs, wStart, sleepFrom, released, outputs, events>>

\* the iterator is exhausted: the for loop ends, benchmark() returns
\* outputs and run() stores it in self.outputs
Exhaust(w) ==
    /\ WorkerReady(w)
    /\ ~HasNext(wReqs[w], released[w])
    /\ wPc' = [wPc EXCEPT ![w] = "terminated"]
    /\ UNCHANGED <<args, input_requests, now, mainVars, asyncVars,
                   wReqs, wStart, sleepFrom, released, outputs, events>>

\* ------------------------------------------------------- cooperative mode
\* slip: the loop body awaits the request it has just spawned (closed loop)
AsyncReadyClosedLoop ==
    /\ mainPc = "gen"
    /\ \A t \in 1 .. Len(tasks) : tasks[t].st = "done"

\* the async for asks get_request_async for its next element as soon as the
\* loop body has run: create_task does not await the task it spawns
AsyncReady == mainPc = "gen"

\* get_request_async yields the next spec; the loop body spawns its task
\* and control returns into the generator without suspending
AsyncRelease ==
    /\ AsyncReady
    /\ HasNext(input_requests, asyncReleased)
    /\ LET r == NextRequest(input_requests, asyncReleased) IN
         /\ asyncReleased' = Append(asyncReleased, r)
         /\ tasks' = Append(tasks, [spec |-> r, st |-> "pending",
                                    success |-> FALSE])
         /\ asyncEvents' = Resumed(Yielded(asyncEvents, r), r)
    /\ mainPc' = IF SleepsAfterYield THEN "sleep" ELSE "gen"
    /\ UNCHANGED <<args, input_requests, now, benchmark_start_time,
                   benchmark_duration, joined, all_outputs, aggregated,
                   metrics, error,
                   asyncOutputs, workerVars>>

\* await asyncio.sleep(interval) in get_request_async is over
AsyncSleepWake ==
    /\ mainPc = "sleep"
    /\ mainPc' = "gen"
    /\ UNCHANGED <<args, input_requests, now, benchmark_start_time,
                   benchmark_duration, joined, all_outputs, aggregated,
                   metrics, error,
                   asyncVars, workerVars>>

\* the iterator is exhausted: the async for ends, main awaits gather(*tasks)
AsyncExhaust ==
    /\ AsyncReady
    /\ ~HasNext(input_requests, asyncReleased)
    /\ mainPc' = "gather"
    /\ UNCHANGED <<args, input_requests, now, benchmark_start_time,
                   benchmark_duration, joined, all_outputs, aggregated,
                   metrics, error,
                   asyncVars, workerVars>>

\* the event loop runs tasks only while the driving coroutine is suspended
\* (in asyncio.sleep or in gather)
LoopFree == mainPc \in {"sleep", "gather"}

\* a spawned request task runs to its end and returns its outcome
TaskComplete(t) ==
    /\ args.enable_async
    /\ LoopFree
    /\ t \in 1 .. Len(tasks)
    /\ tasks[t].st = "pending"
    /\ \E ok \in BOOLEAN :
         tasks' = [tasks EXCEPT ![t] = [@ EXCEPT !.st = "done",
                                                 !.success = ok]]
    /\ UNCHANGED <<args, input_requests, now, mainVars,
                   asyncReleased, asyncOutputs, asyncEvents, workerVars>>

\* slip: waiting for the first completed task only
GatherReadyFirst ==
    \/ tasks = << >>
    \/ \E t \in 1 .. Len(tasks) : tasks[t].st = "done"

\* asyncio.gather(*tasks) returns once every task is done
GatherReady == \A t \in 1 .. Len(tasks) : tasks[t].st = "done"

\* the results of gather, in the order of the tasks
GatherResult == [t \in 1 .. Len(tasks) |->
                   Outcome(tasks[t].spec, tasks[t].success)]

\* gather returns; benchmark_duration is taken
GatherDone ==
    /\ mainPc = "gather"
    /\ GatherReady
    /\ asyncOutputs' = GatherResult
    /\ benchmark_duration' = now - benchmark_start_time
    /\ mainPc' = "aggregate"
    /\ UNCHANGED <<args, input_requests, now, benchmark_start_time, joined,
                   all_outputs, aggregated, metrics, error,
                   tasks, asyncReleased, asyncEvents, workerVars>>

\* ---------------------------------------------------------- specification
Next ==
    \/ Tick
    \/ MainStart
    \/ Spawn
    \/ Join
    \/ TakeDuration
    \/ Concat
    \/ Aggregate
    \/ \E w \in Workers : RampWake(w)
    \/ \E w \in Workers : Release(w)
    \/ \E w \in Workers : Complete(w)
    \/ \E w \in Workers : SleepWake(w)
    \/ \E w \in Workers : Exhaust(w)
    \/ AsyncRelease
    \/ AsyncSleepWake
    \/ AsyncExhaust
    \/ \E t \in 1 .. MaxPool : TaskComplete(t)
    \/ GatherDone

Spec == Init /\ [][Next]_vars

\* a step of main or of the cooperative driver before the call of
\* calculate_metrics
MainStep ==
    \/ MainStart
    \/ Spawn
    \/ Join
    \/ TakeDuration
    \/ Concat
    \/ AsyncRelease
    \/ AsyncSleepWake
    \/ AsyncExhaust
    \/ GatherDone

\* a step of thread w
WorkerStep(w) ==
    \/ RampWake(w)
    \/ Release(w)
    \/ Complete(w)
    \/ SleepWake(w)
    \/ Exhaust(w)

\* the runs whose threads can be given two specs each
FairInit == Init /\ 2 * args.num_threads <= MaxPool

\* these runs under their scheduling: the clock advances up to its bound,
\* main and every thread take the steps they can take, so that a request
\* that was dispatched returns and a sleep that is over ends, and the event
\* loop runs the tasks while the driver is suspended
FairSpec ==
    /\ FairInit
    /\ [][Next]_vars
    /\ WF_vars(Tick)
    /\ WF_vars(MainStep)
    /\ \A w \in ThreadIds : WF_vars(WorkerStep(w))
    /\ WF_vars(\E t \in 1 .. MaxPool : TaskComplete(t))

\* ------------------------------------------- the aggregator on its own
\* what request_func can measure for a request: a failure, or a success
\* with its token count, its time to first token and its latency
MeasureSpace ==
    { [success |-> FALSE, output_len |-> 0, ttft |-> 0, latency |-> 0] }
    \cup
    { m \in [ success : {TRUE}, output_len : 0 .. MaxTokens,
              ttft : 1 .. MaxLatency, latency : 1 .. MaxLatency ] :
        m.ttft <= m.latency }

\* the outcome of spec with the measures m
OutcomeOf(spec, m) ==
    [ spec |-> spec, success |-> m.success, output_len |-> m.output_len,
      ttft |-> m.ttft, latency |-> m.latency ]

\* the cooperative runs that have reached the call of calculate_metrics
\* with a pool of at most MaxOutcomes specs, with every outcome list
MetricsInit ==
    /\ args \in {a \in ArgSpace : /\ PlainOptions(a)
                                   /\ a.enable_async
                                   /\ a.num_threads = 1
                                   /\ a.request_rate = Inf
                                   /\ PoolSize(a) <= MaxOutcomes}
    /\ input_requests = MakePool(args)
    /\ \E ms \in [1 .. Len(input_requests) -> MeasureSpace] :
         asyncOutputs = [i \in 1 .. Len(input_requests) |->
                           OutcomeOf(input_requests[i], ms[i])]
    /\ tasks = [i \in 1 .. Len(asyncOutputs) |->
                  [spec |-> asyncOutputs[i].spec, st |-> "done",
                   success |-> asyncOutputs[i].success]]
    /\ asyncReleased = input_requests
    /\ asyncEvents = [i \in 1 .. Len(input_requests) |->
                       ReleaseEvent(input_requests[i])]
    /\ now \in 0 .. MaxTime
    /\ benchmark_start_time = 0
    /\ benchmark_duration = now
    /\ mainPc = "aggregate"
    /\ joined = 0
    /\ wPc = [w \in ThreadIds |-> "unborn"]
    /\ wReqs = [w \in ThreadIds |-> << >>]
    /\ wStart = [w \in ThreadIds |-> 0]
    /\ sleepFrom = [w \in ThreadIds |-> 0]
    /\ released = [w \in ThreadIds |-> << >>]
    /\ outputs = [w \in ThreadIds |-> << >>]
    /\ events = [w \in ThreadIds |-> << >>]
    /\ all_outputs = << >>
    /\ aggregated = << >>
    /\ metrics = NoMetrics("pending")
    /\ error = "none"

MetricsNext == Aggregate

MetricsSpec == MetricsInit /\ [][MetricsNext]_vars

\* ---------------------------------------- the aggregator on a larger pool
\* Time is counted in tenths of a second here.  A burst of 4 specs with the
\* prompt lengths 10, 20, 10, 30
ScenarioPool ==
    [i \in 1 .. 4 |-> [prompt |-> i, prompt_len |-> <<10, 20, 10, 30>>[i]]]

\* the command line of the burst: cooperative mode, infinite rate
ScenarioArgs ==
    [ enable_async |-> TRUE, num_threads |-> 1, num_prompts |-> 4,
      ramp_up_time |-> 0, thread_stop_time |-> 0, request_rate |-> Inf,
      dataset_name |-> "sharegpt", short |-> 0, backend |-> "vllm",
      chat_template |-> TRUE, sharegpt_output_len |-> None,
      save_result |-> FALSE, metadata |-> << >> ]

\* what a request of the burst can measure: a failure, or a success of 1 or
\* 5 tokens with the first token after 0.1 s or 0.2 s and the last after
\* ten times as long
ScenarioMeasures ==
    { [success |-> FALSE, output_len |-> 0, ttft |-> 0, latency |-> 0] }
    \cup
    { [success |-> TRUE, output_len |-> n, ttft |-> t, latency |-> 10 * t] :
        n \in {1, 5}, t \in {1, 2} }

\* the burst at the call of calculate_metrics, 1.0 s or 2.0 s after its
\* start, with every outcome list
ScenarioInit ==
    /\ args = ScenarioArgs
    /\ input_requests = ScenarioPool
    /\ \E ms \in [1 .. Len(input_requests) -> ScenarioMeasures] :
         asyncOutputs = [i \in 1 .. Len(input_requests) |->
                           OutcomeOf(input_requests[i], ms[i])]
    /\ tasks = [i \in 1 .. Len(asyncOutputs) |->
                  [spec |-> asyncOutputs[i].spec, st |-> "done",
                   success |-> asyncOutputs[i].success]]
    /\ asyncReleased = input_requests
    /\ asyncEvents = [i \in 1 .. Len(input_requests) |->
                       ReleaseEvent(input_requests[i])]
    /\ now \in {10, 20}
    /\ benchmark_start_time = 0
    /\ benchmark_duration = now
    /\ mainPc = "aggregate"
    /\ joined = 0
    /\ wPc = [w \in ThreadIds |-> "unborn"]
    /\ wReqs = [w \in ThreadIds |-> << >>]
    /\ wStart = [w \in ThreadIds |-> 0]
    /\ sleepFrom = [w \in ThreadIds |-> 0]
    /\ released = [w \in ThreadIds |-> << >>]
    /\ outputs = [w \in ThreadIds |-> << >>]
    /\ events = [w \in ThreadIds |-> << >>]
    /\ all_outputs = << >>
    /\ aggregated = << >>
    /\ metrics = NoMetrics("pending")
    /\ error = "none"

ScenarioNext == Aggregate

ScenarioSpec == ScenarioInit /\ [][ScenarioNext]_vars

\* ------------------------------------------ the two schedulers side by side
\* get_request_async and get_request are handed the same pool and the same
\* rate: the cooperative driver and one thread, both at the start of their
\* loop, with no stop deadline
PairInit ==
    /\ args \in {a \in ArgSpace : PlainOptions(a) /\ a.enable_async}
    /\ input_requests = MakePool(args)
    /\ now = 0
    /\ mainPc = "gen"
    /\ benchmark_start_time = 0
    /\ benchmark_duration = -1
    /\ joined = 0
    /\ tasks = << >>
    /\ asyncReleased = << >>
    /\ asyncEvents = << >>
    /\ asyncOutputs = << >>
    /\ wPc = [w \in ThreadIds |-> IF w = 0 THEN "gen" ELSE "unborn"]
    /\ wReqs = [w \in ThreadIds |-> IF w = 0 THEN input_requests ELSE << >>]
    /\ wStart = [w \in ThreadIds |-> 0]
    /\ sleepFrom = [w \in ThreadIds |-> 0]
    /\ released = [w \in ThreadIds |-> << >>]
    /\ outputs = [w \in ThreadIds |-> << >>]
    /\ events = [w \in ThreadIds |-> << >>]
    /\ all_outputs = << >>
    /\ aggregated = << >>
    /\ metrics = NoMetrics("pending")
    /\ error = "none"

\* each scheduler is consumed by its own loop, up to its exhaustion
PairNext ==
    \/ AsyncRelease
    \/ AsyncSleepWake
    \/ AsyncExhaust
    \/ \E t \in 1 .. MaxPool : TaskComplete(t)
    \/ Release(0)
    \/ Complete(0)
    \/ SleepWake(0)
    \/ Exhaust(0)

PairSpec == PairInit /\ [][PairNext]_vars

\* ------------------------------------------------------------------ claims
IsPrefix(s, t) == Len(s) <= Len(t) /\ s = SubSeq(t, 1, Len(s))

\* calculate_metrics has been called
MetricsCalled == metrics.status # "pending"

\* the thread's run() is over
Ended(w) == wPc[w] \in {"terminated", "raised"}

\* a thread that left its loop by the stop deadline: the spec it was handed
\* last was never dispatched
Halted(w) == wPc[w] = "terminated" /\ Len(released[w]) > Len(outputs[w])

\* C1: the arrival scheduler, consumed to exhaustion, releases every spec of
\* its pool exactly once and in pool order, for the finite and the infinite
\* rate, in the cooperative and in the thread variant; before that it has
\* released a prefix of the pool.
C1_ExhaustionReleasesPool ==
    /\ IsPrefix(asyncReleased, input_requests)
    /\ (args.enable_async /\ mainPc \in {"gather", "aggregate", "done"}
           => asyncReleased = input_requests)
    /\ \A w \in Workers :
         /\ IsPrefix(released[w], wReqs[w])
         /\ (wPc[w] = "terminated" /\ Len(released[w]) = Len(outputs[w])
                => released[w] = wReqs[w])

C1_Witness ==
    /\ args.enable_async
    /\ args.request_rate # Inf
    /\ mainPc = "gather"
    /\ Len(input_requests) >= 3
    /\ asyncReleased = input_requests

\* C2: cooperative mode is open loop: at a release point the next release
\* is enabled whatever the state of the tasks spawned before, and a
\* suspension ends whatever their state; the tasks in flight are bounded by
\* the pool size only.
C2_OpenLoop ==
    args.enable_async =>
        /\ (mainPc = "gen" /\ Len(asyncReleased) < Len(input_requests)
               => ENABLED AsyncRelease)
        /\ (mainPc = "sleep" => ENABLED AsyncSleepWake)
        /\ Len(tasks) <= Len(input_requests)

C2_Witness ==
    /\ args.enable_async
    /\ Len(input_requests) = MaxPool
    /\ Len(tasks) = MaxPool
    /\ \A t \in 1 .. Len(tasks) : tasks[t].st = "pending"

\* C3: in cooperative mode the aggregator runs only after every spawned
\* task has completed, and the outcome list then holds exactly one outcome
\* per spec of the pool.
C3_JoinBarrierAsync ==
    args.enable_async /\ (mainPc \in {"aggregate", "done"} \/ MetricsCalled) =>
        /\ \A t \in 1 .. Len(tasks) : tasks[t].st = "done"
        /\ Len(asyncOutputs) = Len(input_requests)
        /\ \A i \in 1 .. Len(input_requests) :
             asyncOutputs[i].spec = input_requests[i]
        /\ (MetricsCalled => aggregated = asyncOutputs)

C3_Witness ==
    /\ args.enable_async
    /\ mainPc = "done"
    /\ Len(aggregated) >= 3
    /\ \E i, j \in 1 .. Len(aggregated) :
         aggregated[i].success /\ ~aggregated[j].success

\* the pool has the size the partitioned mode is laid out for
FullPool == Len(input_requests) = args.num_threads * args.num_prompts

\* main has left the join loop of the partitioned mode
PastJoin ==
    /\ ~args.enable_async
    /\ (mainPc \in {"concat", "aggregate", "done"} \/ MetricsCalled)

\* main has concatenated the threads' outputs
PastConcat ==
    /\ ~args.enable_async
    /\ (mainPc \in {"aggregate", "done"} \/ MetricsCalled)

\* C4: partitioned mode, N workers, pool of N*k specs, no worker halted by
\* the stop deadline: the concatenated list has exactly N*k outcomes, the
\* i-th being the outcome of the i-th spec of the pool.
C4_FullCount ==
    PastConcat /\ FullPool /\ (\A w \in Workers : ~Halted(w)) =>
        /\ Len(all_outputs) = args.num_threads * args.num_prompts
        /\ \A i \in 1 .. Len(input_requests) :
             all_outputs[i].spec = input_requests[i]

C4_Witness ==
    /\ PastConcat
    /\ args.num_threads = 2
    /\ args.num_prompts = 2
    /\ args.thread_stop_time > 0
    /\ FullPool
    /\ \A w \in Workers : ~Halted(w)
    /\ Len(all_outputs) = 4

\* a step in which thread w's scheduler releases a spec
ReleaseStep(w) == wPc[w] = "gen" /\ Len(released'[w]) = Len(released[w]) + 1

\* C5: at a release point of a worker, if stop_deadline > 0 and the elapsed
\* time of the worker is >= stop_deadline, the worker terminates without
\* dispatching and with its outcomes as they are, and a terminated worker
\* never releases, dispatches or records anything again; otherwise the
\* released spec is dispatched.  With stop_deadline = 0 a terminated worker
\* has an outcome for every spec of its slice.
C5_StopAtReleasePoint ==
    /\ [][\A w \in ThreadIds :
            ReleaseStep(w) =>
              IF /\ args.thread_stop_time > 0
                 /\ now - wStart[w] >= args.thread_stop_time
              THEN wPc'[w] = "terminated" /\ outputs'[w] = outputs[w]
              ELSE wPc'[w] = "inflight" /\ outputs'[w] = outputs[w]]_vars
    /\ [][\A w \in ThreadIds :
            wPc[w] = "terminated" =>
              /\ wPc'[w] = "terminated"
              /\ outputs'[w] = outputs[w]
              /\ released'[w] = released[w]]_vars
    /\ [](\A w \in Workers :
            args.thread_stop_time = 0 /\ wPc[w] = "terminated" =>
              /\ Len(outputs[w]) = Len(wReqs[w])
              /\ \A j \in 1 .. Len(wReqs[w]) : outputs[w][j].spec = wReqs[w][j])

C5_Witness ==
    \E w \in Workers :
        /\ args.thread_stop_time > 0
        /\ Halted(w)
        /\ Len(wReqs[w]) = 2
        /\ Len(outputs[w]) = 1
        /\ mainPc = "done"

\* C6 as stated: whenever the positive stop deadline is smaller than the
\* time a worker needs to complete its full slice, the total number of
\* outcomes is below N*k.  Taken at the step in which the last request of
\* worker w's slice returns, later than the deadline, all other workers
\* having terminated, so that the total of that step is the final total.
C6_AsStated ==
    [][\A w \in Workers :
         ( /\ ~args.enable_async
           /\ FullPool
           /\ args.thread_stop_time > 0
           /\ wPc[w] = "inflight" /\ wPc'[w] # "inflight"
           /\ Len(outputs'[w]) = Len(wReqs[w])
           /\ now - wStart[w] > args.thread_stop_time
           /\ \A v \in Workers \ {w} : wPc[v] = "terminated" )
         => Len(ConcatUpTo(outputs', args.num_threads))
              < args.num_threads * args.num_prompts]_vars

\* C6 amended: whenever the elapsed time of a worker has reached the
\* positive stop deadline at one of its release points, that worker ends
\* with fewer than k outcomes and the total number of outcomes is below N*k.
C6_DeadlineAtReleasePoint ==
    /\ [][\A w \in Workers :
            ( /\ ReleaseStep(w)
              /\ FullPool
              /\ args.thread_stop_time > 0
              /\ now - wStart[w] >= args.thread_stop_time )
            => /\ wPc'[w] = "terminated"
               /\ Len(outputs'[w]) < args.num_prompts
               /\ Len(released'[w]) > Len(outputs'[w])]_vars
    /\ [](PastConcat /\ FullPool /\ (\E w \in Workers : Halted(w))
            => Len(all_outputs) < args.num_threads * args.num_prompts)

C6_Witness ==
    /\ PastConcat
    /\ mainPc = "done"
    /\ FullPool
    /\ args.num_threads = 2
    /\ args.num_prompts = 2
    /\ \E w \in Workers : Halted(w) /\ Len(outputs[w]) = 1
    /\ Len(aggregated) = 3

\* the specs thread w has dispatched: every released spec but the one a
\* halted thread was handed last
Dispatched(w) ==
    IF Halted(w)
    THEN SubSeq(released[w], 1, Len(released[w]) - 1)
    ELSE released[w]

\* C7: a dispatched request is never cancelled.  A request in flight only
\* ends by its outcome being appended, whether or not the stop deadline has
\* passed meanwhile; recorded outcomes and spawned tasks are never removed;
\* a thread terminates only from a release point; at the end of the run
\* the aggregator has exactly one outcome per dispatched request.
C7_NoCancellation ==
    /\ [][\A w \in ThreadIds :
            wPc[w] = "inflight" =>
              \/ wPc'[w] = "inflight" /\ outputs'[w] = outputs[w]
              \/ /\ wPc'[w] \in {"gen", "sleep"}
                 /\ Len(outputs'[w]) = Len(outputs[w]) + 1
                 /\ IsPrefix(outputs[w], outputs'[w])
                 /\ outputs'[w][Len(outputs'[w])].spec
                      = released[w][Len(released[w])]]_vars
    /\ [][\A w \in ThreadIds :
            /\ IsPrefix(outputs[w], outputs'[w])
            /\ (wPc'[w] = "terminated" /\ wPc[w] # "terminated"
                   => wPc[w] = "gen")]_vars
    /\ [][\A t \in 1 .. Len(tasks) :
            /\ t <= Len(tasks')
            /\ tasks'[t].spec = tasks[t].spec
            /\ (tasks[t].st = "done" => tasks'[t] = tasks[t])]_vars
    /\ [](MetricsCalled =>
            IF args.enable_async
            THEN /\ Len(aggregated) = Len(asyncReleased)
                 /\ \A i \in 1 .. Len(aggregated) :
                      aggregated[i].spec = asyncReleased[i]
            ELSE /\ \A w \in Workers :
                      /\ Len(outputs[w]) = Len(Dispatched(w))
                      /\ \A j \in 1 .. Len(outputs[w]) :
                           outputs[w][j].spec = Dispatched(w)[j]
                 /\ aggregated = ConcatUpTo(outputs, args.num_threads))

\* a request in flight at a moment at which the stop deadline has passed
C7_Witness ==
    \E w \in Workers :
        /\ wPc[w] = "inflight"
        /\ args.thread_stop_time > 0
        /\ now - wStart[w] >= args.thread_stop_time
        /\ Len(released[w]) = 2

\* the requests of thread w in flight
WorkerInFlight(w) ==
    IF wPc[w] = "terminated" THEN 0 ELSE Len(released[w]) - Len(outputs[w])

RECURSIVE TotalInFlight(_)
TotalInFlight(n) ==
    IF n = 0 THEN 0 ELSE TotalInFlight(n - 1) + WorkerInFlight(n - 1)

\* C8: in partitioned mode a worker has at most one request in flight, a
\* spec is released only when every spec released before it has its
\* outcome, and the requests in flight never outnumber the workers.
C8_SequentialWorkers ==
    /\ [](\A w \in Workers :
            /\ WorkerInFlight(w) \in {0, 1}
            /\ (WorkerInFlight(w) = 1 <=> wPc[w] = "inflight"))
    /\ [](TotalInFlight(args.num_threads) <= args.num_threads)
    /\ [][\A w \in ThreadIds :
            Len(released'[w]) > Len(released[w])
              => Len(outputs[w]) = Len(released[w])]_vars

C8_Witness ==
    /\ args.num_threads = 2
    /\ \A w \in Workers : wPc[w] = "inflight" /\ Len(released[w]) = 2
    /\ TotalInFlight(args.num_threads) = 2

\* the elements of a sequence
Range(s) == {s[i] : i \in 1 .. Len(s)}

\* C9 as stated: for every pool and worker count the slices are contiguous,
\* pairwise disjoint, equal in size (the remainder going to the early
\* slices) and cover the pool, and a worker releases specs of its own slice
\* only.
C9_AsStated ==
    ~args.enable_async /\ args.num_threads > 0
                       /\ Spawned = args.num_threads =>
        LET n == args.num_threads
            q == Len(input_requests) \div n
            r == Len(input_requests) % n
        IN  /\ ConcatUpTo(wReqs, n) = input_requests
            /\ \A v, w \in Workers :
                 v # w => Range(wReqs[v]) \cap Range(wReqs[w]) = {}
            /\ \A w \in Workers :
                 Len(wReqs[w]) = q + (IF w < r THEN 1 ELSE 0)
            /\ \A w \in Workers : Range(released[w]) \subseteq Range(wReqs[w])

\* C10: in partitioned mode the duration is taken and the threads' outputs
\* are concatenated only once every thread has terminated and been joined,
\* and no thread appends an outcome afterwards.
C10_JoinBarrierThreads ==
    /\ [](PastJoin => /\ joined = args.num_threads
                      /\ \A w \in Workers : Ended(w))
    /\ [](PastConcat => all_outputs = ConcatUpTo(outputs, args.num_threads))
    /\ [][~args.enable_async
            /\ (benchmark_duration' # benchmark_duration
                  \/ all_outputs' # all_outputs
                  \/ aggregated' # aggregated)
            => /\ \A w \in Workers : Ended(w)
               /\ outputs' = outputs
               /\ (all_outputs' # all_outputs => benchmark_duration # -1)]_vars

C10_Witness ==
    /\ ~args.enable_async
    /\ mainPc = "concat"
    /\ args.num_threads = 2
    /\ args.ramp_up_time > 0
    /\ \A w \in Workers : Len(outputs[w]) = 2

RECURSIVE OutcomesBefore(_)
\* the number of outcomes of the threads with an id below w
OutcomesBefore(w) ==
    IF w = 0 THEN 0 ELSE OutcomesBefore(w - 1) + Len(outputs[w - 1])

\* C11: the outcome list handed to the aggregator is in dispatch order.  In
\* cooperative mode the task list is in release order whichever tasks are
\* done, and the i-th outcome is the outcome of the i-th task, that of the
\* i-th released spec; in partitioned mode the outcomes of thread w follow
\* those of the threads below w, the j-th of them being the outcome of the
\* j-th spec of the slice of w.
C11_DispatchOrder ==
    /\ \A t \in 1 .. Len(tasks) : tasks[t].spec = asyncReleased[t]
    /\ (args.enable_async /\ MetricsCalled =>
           /\ Len(aggregated) = Len(asyncReleased)
           /\ \A i \in 1 .. Len(aggregated) :
                /\ aggregated[i].spec = asyncReleased[i]
                /\ aggregated[i].success = tasks[i].success)
    /\ (~args.enable_async /\ MetricsCalled =>
           /\ Len(aggregated) = OutcomesBefore(args.num_threads)
           /\ \A w \in Workers : \A j \in 1 .. Len(outputs[w]) :
                /\ aggregated[OutcomesBefore(w) + j] = outputs[w][j]
                /\ outputs[w][j].spec = wReqs[w][j])

\* two threads with two outcomes each, told apart by their success flags
C11_Witness ==
    /\ ~args.enable_async
    /\ MetricsCalled
    /\ args.num_threads = 2
    /\ Len(aggregated) = 4
    /\ ~aggregated[1].success /\ aggregated[2].success
    /\ aggregated[3].success /\ ~aggregated[4].success

RECURSIVE SumOwnPromptLen(_)
\* the sum of prompt_len over the specs of the successful outcomes
SumOwnPromptLen(outs) ==
    IF outs = << >> THEN 0
    ELSE (IF Head(outs).success THEN Head(outs).spec.prompt_len ELSE 0)
           + SumOwnPromptLen(Tail(outs))

\* C12 as stated: in every run of either mode that ends with a report,
\* total_input is the sum of prompt_len over exactly the specs whose own
\* outcome is successful, whatever the number of outcomes of each worker.
C12_AsStated ==
    metrics.status = "returned" =>
        metrics.total_input = SumOwnPromptLen(aggregated)

\* the number of successful outcomes of a list
NumSuccess(outs) == Cardinality({i \in 1 .. Len(outs) : outs[i].success})

\* C13 as stated: for any mixture of successful and failed outcomes the
\* aggregator reports successful_rate = completed / (number of outcomes),
\* completed being the number of successful outcomes.
C13_AsStated ==
    MetricsCalled /\ aggregated # << >> =>
        /\ metrics.status = "returned"
        /\ metrics.completed = NumSuccess(aggregated)
        /\ metrics.successful_rate
             = <<NumSuccess(aggregated), Len(aggregated)>>

\* what remains of C13: every report that is returned has the rate of the
\* claim, over the outcomes and not over the pool
C13_WhenReturned ==
    metrics.status = "returned" =>
        /\ metrics.completed = NumSuccess(aggregated)
        /\ metrics.successful_rate
             = <<NumSuccess(aggregated), Len(aggregated)>>

RECURSIVE TpotSamples(_)
\* one sample (latency - ttft) / (output_len - 1) for every successful
\* outcome of more than one token, in the order of the outcomes
TpotSamples(outs) ==
    IF outs = << >> THEN << >>
    ELSE (IF Head(outs).success /\ Head(outs).output_len > 1
          THEN << <<Head(outs).latency - Head(outs).ttft,
                    Head(outs).output_len - 1>> >>
          ELSE << >>) \o TpotSamples(Tail(outs))

RECURSIVE SumOutputLen(_)
\* the tokens generated by the successful outcomes
SumOutputLen(outs) ==
    IF outs = << >> THEN 0
    ELSE (IF Head(outs).success THEN Head(outs).output_len ELSE 0)
           + SumOutputLen(Tail(outs))

\* the counts and distributions of a report follow the claim: TPOT has the
\* samples of the outcomes of more than one token and no other, every
\* successful outcome counts everywhere else
CountsEverySuccess ==
    /\ metrics.tpot = TpotSamples(aggregated)
    /\ metrics.completed = NumSuccess(aggregated)
    /\ metrics.total_input = SumOwnPromptLen(aggregated)
    /\ metrics.total_output = SumOutputLen(aggregated)
    /\ Len(metrics.ttft) = NumSuccess(aggregated)
    /\ Len(metrics.tpr) = NumSuccess(aggregated)

\* C14 as stated: a successful outcome of at most one token adds no TPOT
\* sample, neither a zero nor an error, and still counts toward completed,
\* total_input, total_output, TTFT and TPR; one of more tokens adds exactly
\* the sample (latency - ttft) / (output_len - 1).
C14_AsStated ==
    ( /\ MetricsCalled
      /\ \E i \in 1 .. Len(aggregated) :
           aggregated[i].success /\ aggregated[i].output_len <= 1 )
    => metrics.status = "returned" /\ CountsEverySuccess

\* what remains of C14: every report that is returned counts as the claim
\* says
C14_WhenReturned ==
    ( /\ metrics.status = "returned"
      /\ Len(aggregated) = Len(input_requests) )
    => CountsEverySuccess

\* C15 as stated: a non-empty outcome list in which every outcome failed
\* does not raise: the report has completed = 0, successful_rate = 0,
\* total_output = 0 and no sample in any of the three distributions.
C15_AsStated ==
    ( /\ MetricsCalled
      /\ aggregated # << >>
      /\ NumSuccess(aggregated) = 0 )
    => /\ metrics.status = "returned"
       /\ metrics.completed = 0
       /\ metrics.successful_rate = <<0, Len(aggregated)>>
       /\ metrics.total_output = 0
       /\ metrics.ttft = << >>
       /\ metrics.tpot = << >>
       /\ metrics.tpr = << >>

\* C16 as stated: when the run has successful outcomes and a distribution
\* has no sample (TPOT, every successful outcome being of at most one
\* token), the aggregator does not fail: the report has that distribution
\* without samples, never as the value 0, and the others as usual.
C16_AsStated ==
    ( /\ MetricsCalled
      /\ NumSuccess(aggregated) > 0
      /\ TpotSamples(aggregated) = << >> )
    => /\ metrics.status = "returned"
       /\ metrics.tpot = << >>
       /\ Len(metrics.ttft) = NumSuccess(aggregated)
       /\ Len(metrics.tpr) = NumSuccess(aggregated)

\* no element of the sequence occurs twice
NoRepeat(s) == \A i, j \in 1 .. Len(s) : i # j => s[i] # s[j]

\* C17: a failed outcome is data.  Every released and dispatched spec has
\* exactly one outcome, successful or failed, once its request is over; no
\* spec is released twice, by one thread or by two; a thread only leaves its
\* loop at the end of its slice or by the stop deadline; and whatever the
\* outcomes recorded so far, the scheduler releases its next spec or ends
\* its wait.
C17_FailureIsData ==
    /\ NoRepeat(asyncReleased)
    /\ Len(tasks) = Len(asyncReleased)
    /\ (args.enable_async /\ mainPc = "gen"
          /\ Len(asyncReleased) < Len(input_requests)
          => ENABLED AsyncRelease)
    /\ \A w \in Workers :
         /\ NoRepeat(released[w])
         /\ \A v \in Workers :
              v # w => Range(released[v]) \cap Range(released[w]) = {}
         /\ (wPc[w] \in {"gen", "sleep"} =>
               /\ Len(outputs[w]) = Len(released[w])
               /\ \A j \in 1 .. Len(outputs[w]) :
                    outputs[w][j].spec = released[w][j])
         /\ (wPc[w] = "inflight" => Len(outputs[w]) = Len(released[w]) - 1)
         /\ (wPc[w] = "terminated" => released[w] = wReqs[w] \/ Halted(w))
         /\ (wPc[w] = "gen" /\ Len(released[w]) < Len(wReqs[w])
               => ENABLED Release(w))
         /\ (wPc[w] = "sleep" => ENABLED SleepWake(w))

\* a thread whose first request failed has gone on to its second
C17_Witness ==
    \E w \in Workers :
        /\ Len(outputs[w]) = 2
        /\ ~outputs[w][1].success
        /\ outputs[w][2].success
        /\ NumSuccess(aggregated) = 1
        /\ Len(aggregated) = 2

\* no spec has been released, no task spawned and no outcome recorded
NothingDispatched ==
    /\ tasks = << >>
    /\ \A w \in ThreadIds : released[w] = << >> /\ outputs[w] = << >>

\* C18 as stated: every configuration failure (unknown dataset name,
\* missing chat template for the sonnet dataset, too small output length,
\* zero worker count, unknown backend, malformed metadata item) ends the
\* run before any request is dispatched.
C18_AsStated ==
    error \in {"dataset", "chat_template", "output_len", "num_threads",
               "backend", "metadata"}
    => NothingDispatched

\* what remains of C18: the failures other than the metadata item end the
\* run before any request is dispatched
C18_BeforeDispatch ==
    error \in {"dataset", "chat_template", "output_len", "num_threads",
               "backend"}
    => NothingDispatched

\* the offset of thread w has elapsed since the clock value t0
OffsetElapsed(w, t0) ==
    (now - t0) * args.num_threads >= w * args.ramp_up_time

\* C19: in partitioned mode the ramp-up sleep of thread w is over exactly
\* when w * R / N has elapsed since the thread was started, so that the
\* offset is 0 for thread 0 and for R = 0 and grows with w for R > 0; a
\* thread that has taken its start timestamp or released a spec did so no
\* earlier than w * R / N after the start timestamp of main.
C19_RampOffsets ==
    ~args.enable_async =>
      \A w \in Workers :
        /\ (wPc[w] = "ramp" =>
              (ENABLED RampWake(w) <=> OffsetElapsed(w, sleepFrom[w])))
        /\ (wPc[w] = "ramp" /\ (w = 0 \/ args.ramp_up_time = 0)
              => ENABLED RampWake(w))
        /\ (wPc[w] = "ramp" /\ w > 0 /\ args.ramp_up_time > 0
              /\ now = sleepFrom[w]
              => ~ENABLED RampWake(w))
        /\ (wPc[w] = "ramp" => sleepFrom[w] >= benchmark_start_time)
        /\ (wPc[w] \in {"gen", "inflight", "sleep", "terminated"} =>
              (wStart[w] - benchmark_start_time) * args.num_threads
                 >= w * args.ramp_up_time)
        /\ (released[w] # << >> => OffsetElapsed(w, benchmark_start_time))
        /\ \A v \in Workers :
             (v < w /\ wPc[v] = "ramp" /\ wPc[w] = "ramp"
                /\ sleepFrom[v] = sleepFrom[w] /\ ENABLED RampWake(w))
             => ENABLED RampWake(v)

\* the second thread dispatches after its offset of R / N > 0
C19_Witness ==
    /\ ~args.enable_async
    /\ args.num_threads = 2
    /\ args.ramp_up_time > 0
    /\ wPc[1] = "inflight"
    /\ wStart[1] > benchmark_start_time
    /\ Len(released[0]) = 2

\* C20: with request_rate = +infinity the scheduler never waits, in the
\* cooperative and in the thread variant: no generator is ever in its
\* sleep, and the cooperative loop, which can only be overtaken by a task
\* while it is suspended, releases its whole pool before any task is done.
C20_NoWaitAtInfiniteRate ==
    args.request_rate = Inf =>
        /\ mainPc # "sleep"
        /\ \A w \in ThreadIds : wPc[w] # "sleep"
        /\ (mainPc = "gen" =>
              \A t \in 1 .. Len(tasks) : tasks[t].st = "pending")

\* both threads have released their whole slice at the infinite rate
C20_Witness ==
    /\ args.request_rate = Inf
    /\ ~args.enable_async
    /\ args.num_threads = 2
    /\ \A w \in Workers : wPc[w] = "terminated" /\ Len(outputs[w]) = 2

\* the outcomes of the burst of the claim: every request successful with 5
\* tokens, the first token after 0.1, 0.2, 0.1, 0.2 s and the last after
\* 1.0, 2.0, 1.0, 2.0 s
ScenarioOutcomes ==
    [i \in 1 .. 4 |->
        [ spec |-> ScenarioPool[i], success |-> TRUE, output_len |-> 5,
          ttft |-> <<1, 2, 1, 2>>[i], latency |-> <<10, 20, 10, 20>>[i] ]]

\* C21: in a report the throughput fields are completed / duration,
\* total_input / duration and total_output / duration, total_output being
\* the sum of the token counts of the successes (0 for a failure); for the
\* burst of the claim and a duration of 2.0 s that is 2.0 requests, 35.0
\* prompt tokens and 10.0 generated tokens per second, and the mean TTFT is
\* 150.0 ms.  With 10 ticks to the second, a quotient <<a, b>> per tick is
\* x per second iff a * 10 = x * b, and a mean of <<a, b>> thousandths of
\* a tick is x ms iff a = x * 10 * b.
C21_Throughput ==
    metrics.status = "returned" =>
        /\ metrics.total_output = SumOutputLen(aggregated)
        /\ metrics.request_throughput
             = <<NumSuccess(aggregated), benchmark_duration>>
        /\ metrics.input_throughput
             = <<SumOwnPromptLen(aggregated), benchmark_duration>>
        /\ metrics.output_throughput
             = <<SumOutputLen(aggregated), benchmark_duration>>
        /\ (aggregated = ScenarioOutcomes /\ benchmark_duration = 20 =>
              /\ metrics.request_throughput[1] * 10
                   = 2 * metrics.request_throughput[2]
              /\ metrics.input_throughput[1] * 10
                   = 35 * metrics.input_throughput[2]
              /\ metrics.output_throughput[1] * 10
                   = 10 * metrics.output_throughput[2]
              /\ metrics.mean_ttft_ms[1]
                   = 150 * 10 * metrics.mean_ttft_ms[2])

\* the report of the burst of the claim
C21_Witness ==
    /\ metrics.status = "returned"
    /\ aggregated = ScenarioOutcomes
    /\ benchmark_duration = 20
    /\ metrics.total_input = 70
    /\ metrics.total_output = 20

\* number of events of kind k in the history ev
CountKind(ev, k) == Cardinality({i \in DOMAIN ev : ev[i].kind = k})

\* the schedulers of the run: the history of each with the pool it was given
SchedulerRuns ==
    IF args.enable_async
    THEN { [ev |-> asyncEvents, pool |-> input_requests] }
    ELSE { [ev |-> events[w], pool |-> wReqs[w]] : w \in Workers }

\* C22: at a finite rate the scheduler suspends exactly once before each
\* release after the first and nowhere else: its first event is a release,
\* releases and suspensions alternate, and a suspension is only ever begun
\* when another spec is left to release, so that no suspension follows the
\* last release and N releases involve N - 1 suspensions.
C22_AsStated ==
    args.request_rate # Inf =>
        \A s \in SchedulerRuns :
            /\ s.ev # << >> => s.ev[1].kind = "release"
            /\ \A i \in 2 .. Len(s.ev) :
                 s.ev[i].kind = "release" <=> s.ev[i - 1].kind = "suspend"
            /\ (s.ev # << >> /\ s.ev[Len(s.ev)].kind = "suspend"
                   => CountKind(s.ev, "release") < Len(s.pool))

\* what the generators do instead: a suspension follows every release the
\* consumer comes back from, the last one included, so that a scheduler
\* consumed to exhaustion has suspended as often as it has released
C22_SuspendsAfterEveryYield ==
    args.request_rate # Inf =>
        /\ (args.enable_async /\ mainPc \in {"gather", "aggregate", "done"}
               => /\ CountKind(asyncEvents, "release") = Len(input_requests)
                  /\ CountKind(asyncEvents, "suspend") = Len(input_requests))
        /\ \A w \in Workers :
             wPc[w] = "terminated" /\ ~Halted(w)
                => /\ CountKind(events[w], "release") = Len(wReqs[w])
                   /\ CountKind(events[w], "suspend") = Len(wReqs[w])

\* the cooperative run has spawned a task for every spec of a pool that is
\* not empty, and every one of them has completed
AllTasksCompleted ==
    /\ args.enable_async
    /\ tasks # << >>
    /\ Len(tasks) = Len(input_requests)
    /\ \A t \in 1 .. Len(tasks) : tasks[t].st = "done"

\* C23: in cooperative mode the measured duration ends at the completion of
\* the last spawned task: once every spawned task has completed, the run is
\* in no inter-arrival suspension on its way to the end timestamp.
C23_AsStated == AllTasksCompleted => mainPc # "sleep"

\* the one wait the code has there is the suspension behind the last
\* release: a run that sleeps when every task has completed has the
\* suspension after its last spec as its last scheduler event
C23_OnlyTrailingSuspension ==
    AllTasksCompleted /\ mainPc = "sleep" =>
        asyncEvents[Len(asyncEvents)] =
            SuspendEvent(input_requests[Len(input_requests)])

\* C24: get_request_async and get_request are equivalent schedulers: run on
\* the same pool with the same rate they produce the same sequence of
\* release and suspension events, so that at any moment the history of one
\* is a prefix of the history of the other and the two are equal once both
\* are exhausted.  They differ in what a suspension allows: tasks spawned
\* before can complete while the cooperative scheduler is suspended, while
\* a suspended thread has nothing in flight.
C24_SameEvents ==
    /\ IsPrefix(asyncEvents, events[0]) \/ IsPrefix(events[0], asyncEvents)
    /\ (mainPc = "gather" /\ wPc[0] = "terminated"
           => asyncEvents = events[0])
    /\ (mainPc = "sleep" /\ (\E t \in 1 .. Len(tasks) : tasks[t].st = "pending")
           => ENABLED (\E t \in 1 .. MaxPool : TaskComplete(t)))
    /\ (wPc[0] = "sleep" => Len(released[0]) = Len(outputs[0]))

C24_Witness ==
    /\ args.request_rate # Inf
    /\ Len(input_requests) >= 3
    /\ mainPc = "gather"
    /\ wPc[0] = "terminated"
    /\ asyncEvents = events[0]
    /\ CountKind(events[0], "release") = Len(input_requests)
    /\ CountKind(events[0], "suspend") = Len(input_requests)

\* the release of the next spec of thread w can dispatch it
CanDispatch(w) == ENABLED (Release(w) /\ wPc'[w] = "inflight")

\* C26: the elapsed time compared with the stop deadline is measured per
\* worker, from the start timestamp the worker takes after its start offset:
\* that timestamp is no earlier than the offset after the global start, at
\* a release point the spec is dispatched exactly when less than the stop
\* deadline has elapsed since it, a halted worker has run for the stop
\* deadline at least, and a worker that has just taken its timestamp
\* dispatches its first spec however long its ramp-up delay was.
C26_DeadlineFromWorkerStart ==
    ~args.enable_async =>
        \A w \in Workers :
            /\ (wPc[w] \in {"gen", "inflight", "sleep", "terminated"}
                   => OffsetElapsed(w, now - wStart[w] + benchmark_start_time))
            /\ (wPc[w] = "gen" /\ HasNext(wReqs[w], released[w])
                   => (CanDispatch(w) <=>
                          ~(/\ args.thread_stop_time > 0
                            /\ now - wStart[w] >= args.thread_stop_time)))
            /\ (Halted(w)
                   => /\ args.thread_stop_time > 0
                      /\ now - wStart[w] >= args.thread_stop_time)
            /\ (wPc[w] = "gen" /\ released[w] = << >> /\ wReqs[w] # << >>
                   /\ now = wStart[w]
                   => CanDispatch(w))

\* thread 1 dispatches its first spec although, counted from the global
\* start, the stop deadline has passed during its ramp-up delay
C26_Witness ==
    /\ ~args.enable_async
    /\ args.num_threads = 2
    /\ args.thread_stop_time > 0
    /\ wStart[1] - benchmark_start_time >= args.thread_stop_time
    /\ wPc[1] = "inflight"
    /\ Len(released[1]) = 1
    /\ outputs[1] = << >>

\* the run has passed its configuration checks and taken its start
\* timestamp; in partitioned mode the backend is one the threads know
Started ==
    \/ args.enable_async /\ mainPc = "gen"
    \/ ~args.enable_async /\ mainPc = "spawn" /\ KnownBackend(args.backend)

\* main is about to call calculate_metrics: in cooperative mode every
\* spawned task is done and gathered, in partitioned mode every thread has
\* terminated and has been joined
AtAggregation ==
    /\ mainPc = "aggregate"
    /\ IF args.enable_async
       THEN /\ Len(tasks) = Len(input_requests)
            /\ \A t \in 1 .. Len(tasks) : tasks[t].st = "done"
            /\ Len(asyncOutputs) = Len(tasks)
       ELSE /\ joined = args.num_threads
            /\ \A w \in Workers : wPc[w] = "terminated"

\* no thread is in its ramp-up sleep
NoRampSleep == \A w \in ThreadIds : wPc[w] # "ramp"

\* C25: provided every dispatched request eventually returns and every
\* suspension eventually ends, every run that has started eventually
\* reaches aggregation, with every spawned task gathered in cooperative
\* mode and every thread terminated, by exhaustion or by halting, and joined
\* in partitioned mode.  The returns of requests and the ends of the
\* inter-arrival suspensions are the fairness of the specification; a
\* ramp-up sleep ends with the clock, which is what the premise asks.
C25_ReachesAggregation == []<>NoRampSleep => (Started ~> AtAggregation)

\* a partitioned run at aggregation with one thread that was halted by the
\* stop deadline and one that exhausted its slice
C25_Witness ==
    /\ ~args.enable_async
    /\ AtAggregation
    /\ args.num_threads = 2
    /\ \E v, w \in Workers :
         /\ Halted(v)
         /\ ~Halted(w) /\ wReqs[w] # << >> /\ released[w] = wReqs[w]

====
